---- MODULE Spec2Model ----
(***************************************************************************)
(* batchskl: an arena-backed, doubly linked skiplist over externally       *)
(* stored keys (src/batchskl/skl.go).                                      *)
(*                                                                         *)
(* The arena s.nodes is a Go byte slice: a zero-filled backing array (buf, *)
(* whose length is the capacity) and a length (len).  Nodes are read and   *)
(* written through their byte layout (little-endian, as on amd64/arm64):   *)
(*   +0  key    uint32        +8  prefix uint64                            *)
(*   +16+8*h  links[h].next uint32      +20+8*h  links[h].prev uint32      *)
(* Offsets are 0-based byte offsets; buf[i+1] is the byte at offset i.     *)
(***************************************************************************)
EXTENDS Integers, Sequences, FiniteSets, TLC

VARIABLES nodes,    \* s.nodes  : [buf : Seq(0..255), len : Nat]
          head,     \* s.head   : arena offset of the head sentinel
          tail,     \* s.tail   : arena offset of the tail sentinel
          height,   \* s.height : current height of the list
          storage,  \* the Storage collaborator: the keys written so far
          it,       \* Iterator.nd : arena offset the cursor rests on
          op,       \* the last operation and its result
          issued    \* history: the <<offset, size>> regions issued by alloc

vars == <<nodes, head, tail, height, storage, it, op, issued>>

-----------------------------------------------------------------------------
(* Constants of the program.                                               *)

maxHeight == 20
maxNodeSize == 176
linksSize == 8
keyPrefixSize == 8

\* Offsets of the fields of struct node.
keyField == 0
prefixField == 8
linksField == 16
prevField == 4

minBufSize == 256

-----------------------------------------------------------------------------
(* Bounds of the model.                                                    *)

MaxOps == 3         \* insertions attempted on one list
MaxKey == 2         \* keys are 0..MaxKey
MaxIterOps == 2     \* insertions attempted on a list with a cursor
MaxIssued == 5      \* regions issued in the arena specification
DrawSpread == 3     \* draws within this distance of each threshold

Keys == 0..MaxKey
InitBufSizes == {0, 300}
Levels == 0..(maxHeight - 1)

-----------------------------------------------------------------------------
(* Byte-level access to the backing array.                                 *)

Pow256(i) == IF i = 0 THEN 1 ELSE IF i = 1 THEN 256 ELSE IF i = 2 THEN 65536 ELSE 16777216

ByteOf(v, i) == (v \div Pow256(i)) % 256

\* A uint32 read at byte offset off.
Load32(buf, off) ==
    buf[off + 1] + 256 * buf[off + 2] + 65536 * buf[off + 3] + 16777216 * buf[off + 4]

\* A uint32 write at byte offset off.
Store32(buf, off, v) ==
    [buf EXCEPT ![off + 1] = ByteOf(v, 0), ![off + 2] = ByteOf(v, 1),
                ![off + 3] = ByteOf(v, 2), ![off + 4] = ByteOf(v, 3)]

\* A uint64 read: the model's prefixes are below 2^31, so the high word of a
\* stored prefix is zero; any other high word is reported as -1.
Load64(buf, off) ==
    IF Load32(buf, off + 4) = 0 THEN Load32(buf, off) ELSE -1

\* A uint64 write of a value below 2^31: low word, then a zero high word.
Store64(buf, off, v) == Store32(Store32(buf, off, v), off + 4, 0)

\* make([]byte, n): n zero bytes.
MakeBytes(n) == [i \in 1..n |-> 0]

\* copy(dst, src): the first min(len(dst), len(src)) bytes of src over dst.
\* dst and src are given with their lengths (the slices' len, not cap).
CopyBytes(dst, dlen, src, slen) ==
    [i \in 1..Len(dst) |-> IF i <= dlen /\ i <= slen THEN src[i] ELSE dst[i]]

-----------------------------------------------------------------------------
(* 32-bit unsigned values, which exceed TLC's integers: <<high 16 bits,   *)
(* low 16 bits>>.  Used for the random draw and the probability table.     *)

ToU32(v) == <<v \div 65536, v % 65536>>

Leq32(a, b) == a[1] < b[1] \/ (a[1] = b[1] /\ a[2] <= b[2])

\* The table init() fills: probabilities[i] = uint32(float64(MaxUint32) * p),
\* p = 1, then p *= 1/e (float64) each round.  Index i of the code is
\* element i + 1 here.
probabilities ==
    <<
       <<65535, 65535>>,   \* [0] = 4294967295
       <<24109, 22744>>,   \* [1] = 1580030168
       <<8869, 21831>>,   \* [2] = 581260615
       <<3262, 55398>>,   \* [3] = 213833830
       <<1200, 21870>>,   \* [4] = 78665070
       <<441, 37885>>,   \* [5] = 28939261
       <<162, 29327>>,   \* [6] = 10646159
       <<59, 49879>>,   \* [7] = 3916503
       <<21, 64545>>,   \* [8] = 1440801
       <<8, 5753>>,   \* [9] = 530041
       <<2, 63919>>,   \* [10] = 194991
       <<1, 6197>>,   \* [11] = 71733
       <<0, 26389>>,   \* [12] = 26389
       <<0, 9708>>,   \* [13] = 9708
       <<0, 3571>>,   \* [14] = 3571
       <<0, 1313>>,   \* [15] = 1313
       <<0, 483>>,   \* [16] = 483
       <<0, 177>>,   \* [17] = 177
       <<0, 65>>,   \* [18] = 65
       <<0, 24>>    \* [19] = 24
    >>

Lt32(a, b) == a[1] < b[1] \/ (a[1] = b[1] /\ a[2] < b[2])

\* randomHeight comparing with < instead of <=.
RECURSIVE randomHeightLoopStrict(_, _)
randomHeightLoopStrict(rnd, h) ==
    IF h < maxHeight /\ Lt32(rnd, probabilities[h + 1])
    THEN randomHeightLoopStrict(rnd, h + 1)
    ELSE h

randomHeightStrict(rnd) == randomHeightLoopStrict(rnd, 1)

RECURSIVE randomHeightLoop(_, _)
randomHeightLoop(rnd, h) ==
    IF h < maxHeight /\ Leq32(rnd, probabilities[h + 1])
    THEN randomHeightLoop(rnd, h + 1)
    ELSE h

\* randomHeight with the draw rand.Uint32() made an input.
randomHeight(rnd) == randomHeightLoop(rnd, 1)

-----------------------------------------------------------------------------
(* The arena.                                                              *)

\* alloc that grows the buffer without copying the old contents over.
allocNoCopy(a, size) ==
    LET offset == a.len
        newSize == offset + size
        cap == Len(a.buf)
        allocSize == IF cap * 2 < newSize THEN newSize ELSE cap * 2
        buf == IF cap < newSize THEN MakeBytes(allocSize) ELSE a.buf
    IN  [nodes |-> [buf |-> buf, len |-> newSize], offset |-> offset]

\* alloc: the slice after the call and the offset returned.
alloc(a, size) ==
    LET offset == a.len
        newSize == offset + size
        cap == Len(a.buf)
        allocSize == IF cap * 2 < newSize THEN newSize ELSE cap * 2
        buf == IF cap < newSize
               THEN CopyBytes(MakeBytes(allocSize), a.len, a.buf, a.len)
               ELSE a.buf
    IN  [nodes |-> [buf |-> buf, len |-> newSize], offset |-> offset]

getKey(a, nd) == Load32(a.buf, nd + keyField)

getKeyPrefix(a, nd) == Load64(a.buf, nd + prefixField)

\* getNext that reads the level's prev slot.
getNextReadsPrev(a, nd, h) ==
    Load32(a.buf, nd + linksField + h * linksSize + prevField)

getNext(a, nd, h) == Load32(a.buf, nd + linksField + h * linksSize)

getPrev(a, nd, h) == Load32(a.buf, nd + linksField + h * linksSize + prevField)

setNext(a, nd, h, next) ==
    [a EXCEPT !.buf = Store32(a.buf, nd + linksField + h * linksSize, next)]

\* setPrev that stores nothing.
setPrevDropped(a, nd, h, prev) == a

setPrev(a, nd, h, prev) ==
    [a EXCEPT !.buf = Store32(a.buf, nd + linksField + h * linksSize + prevField, prev)]

\* newNode with the lower bound of the height check left out.
newNodeNoLowerCheck(a, h, key, prefix) ==
    IF h > maxHeight
    THEN [nodes |-> a, offset |-> 0, panic |-> TRUE]
    ELSE LET unusedSize == (maxHeight - h) * linksSize
             r == alloc(a, maxNodeSize - unusedSize)
             b1 == Store32(r.nodes.buf, r.offset + keyField, key)
             b2 == Store64(b1, r.offset + prefixField, prefix)
         IN  [nodes |-> [buf |-> b2, len |-> r.nodes.len],
              offset |-> r.offset, panic |-> FALSE]

\* newNode that counts one unused link pair too many.
newNodeOneLinkShort(a, h, key, prefix) ==
    IF h < 1 \/ h > maxHeight
    THEN [nodes |-> a, offset |-> 0, panic |-> TRUE]
    ELSE LET unusedSize == (maxHeight - h + 1) * linksSize
             r == alloc(a, maxNodeSize - unusedSize)
             b1 == Store32(r.nodes.buf, r.offset + keyField, key)
             b2 == Store64(b1, r.offset + prefixField, prefix)
         IN  [nodes |-> [buf |-> b2, len |-> r.nodes.len],
              offset |-> r.offset, panic |-> FALSE]

\* newNode: panics on a height outside 1..maxHeight, before allocating.
newNode(a, h, key, prefix) ==
    IF h < 1 \/ h > maxHeight
    THEN [nodes |-> a, offset |-> 0, panic |-> TRUE]
    ELSE LET unusedSize == (maxHeight - h) * linksSize
             r == alloc(a, maxNodeSize - unusedSize)
             b1 == Store32(r.nodes.buf, r.offset + keyField, key)
             b2 == Store64(b1, r.offset + prefixField, prefix)
         IN  [nodes |-> [buf |-> b2, len |-> r.nodes.len],
              offset |-> r.offset, panic |-> FALSE]

\* linkLevels that stops one level short of maxHeight.
RECURSIVE linkLevelsShort(_, _, _, _)
linkLevelsShort(a, hd, tl, i) ==
    IF i < maxHeight - 1
    THEN linkLevelsShort(setPrev(setNext(a, hd, i, tl), tl, i, hd), hd, tl, i + 1)
    ELSE a

RECURSIVE linkLevels(_, _, _, _)
linkLevels(a, hd, tl, i) ==
    IF i < maxHeight
    THEN linkLevels(setPrev(setNext(a, hd, i, tl), tl, i, hd), hd, tl, i + 1)
    ELSE a

\* NewSkiplist whose linking loop starts at level 1.
NewSkiplistFromOne(initBufSize) ==
    LET size == IF initBufSize < minBufSize THEN minBufSize ELSE initBufSize
        a0 == [buf |-> MakeBytes(size), len |-> 0]
        h == newNode(a0, maxHeight, 0, 0)
        t == newNode(h.nodes, maxHeight, 0, 0)
    IN  [nodes |-> linkLevels(t.nodes, h.offset, t.offset, 1),
         head |-> h.offset, tail |-> t.offset, height |-> 1]

\* NewSkiplist that leaves the height field at its zero value.
NewSkiplistHeightUnset(initBufSize) ==
    LET size == IF initBufSize < minBufSize THEN minBufSize ELSE initBufSize
        a0 == [buf |-> MakeBytes(size), len |-> 0]
        h == newNode(a0, maxHeight, 0, 0)
        t == newNode(h.nodes, maxHeight, 0, 0)
    IN  [nodes |-> linkLevels(t.nodes, h.offset, t.offset, 0),
         head |-> h.offset, tail |-> t.offset, height |-> 0]

\* NewSkiplist: the fields of the list it returns.
NewSkiplist(initBufSize) ==
    LET size == IF initBufSize < minBufSize THEN minBufSize ELSE initBufSize
        a0 == [buf |-> MakeBytes(size), len |-> 0]
        h == newNode(a0, maxHeight, 0, 0)
        t == newNode(h.nodes, maxHeight, 0, 0)
    IN  [nodes |-> linkLevels(t.nodes, h.offset, t.offset, 0),
         head |-> h.offset, tail |-> t.offset, height |-> 1]

-----------------------------------------------------------------------------
(* The Storage collaborator: keys are appended to storage and addressed by *)
(* the offset returned; Prefix is an order-compatible projection.          *)

PrefixDiv == 2

\* Storage.Get(offset)
Get(st, offset) == st[offset + 1]

\* Storage.Prefix(key)
Prefix(key) == key \div PrefixDiv

\* Storage.Compare(a, b): key a against the key stored at offset b.
Compare(st, a, b) ==
    IF a < Get(st, b) THEN -1 ELSE IF a = Get(st, b) THEN 0 ELSE 1

-----------------------------------------------------------------------------
(* Splice search.                                                          *)

\* findSpliceLoop that calls Compare on every node, prefix tie or not.
RECURSIVE findSpliceLoopNoFilter(_, _, _, _, _, _, _, _, _)
findSpliceLoopNoFilter(a, tl, st, key, prefix, level, prev, steps, compared) ==
    LET next == getNext(a, prev, level)
        stop(f, c) == [prev |-> prev, next |-> next, found |-> f,
                       steps |-> steps, compared |-> c]
    IN  IF next = tl
        THEN stop(FALSE, compared)
        ELSE LET cmp == Compare(st, key, getKey(a, next))
                 c == compared \cup {<<"key", next>>}
             IN  IF cmp = 0 THEN stop(TRUE, c)
                 ELSE IF cmp < 0 THEN stop(FALSE, c)
                 ELSE findSpliceLoopNoFilter(a, tl, st, key, prefix, level,
                                             next, steps + 1, c)

findSpliceForLevelNoFilter(a, tl, st, key, prefix, level, start) ==
    findSpliceLoopNoFilter(a, tl, st, key, prefix, level, start, 0, {})

\* The loop of findSpliceForLevel, from the current prev.  steps counts the
\* advances made; compared collects <<"prefix", n>> for each node n whose
\* prefix was compared with the target's and <<"key", n>> for each node
\* handed to Storage.Compare.
RECURSIVE findSpliceLoop(_, _, _, _, _, _, _, _, _)
findSpliceLoop(a, tl, st, key, prefix, level, prev, steps, compared) ==
    LET next == getNext(a, prev, level)
        stop(f, c) == [prev |-> prev, next |-> next, found |-> f,
                       steps |-> steps, compared |-> c]
    IN  IF next = tl
        THEN stop(FALSE, compared)
        ELSE LET nextPrefix == getKeyPrefix(a, next)
                 c0 == compared \cup {<<"prefix", next>>}
             IN  IF prefix < nextPrefix
                 THEN stop(FALSE, c0)
                 ELSE IF prefix = nextPrefix
                 THEN LET cmp == Compare(st, key, getKey(a, next))
                          c == c0 \cup {<<"key", next>>}
                      IN  IF cmp = 0 THEN stop(TRUE, c)
                          ELSE IF cmp < 0 THEN stop(FALSE, c)
                          ELSE findSpliceLoop(a, tl, st, key, prefix, level,
                                              next, steps + 1, c)
                 ELSE findSpliceLoop(a, tl, st, key, prefix, level,
                                     next, steps + 1, c0)

\* findSpliceLoop with the "cmp < 0" exit of a prefix tie left out.
RECURSIVE findSpliceLoopTieAdvance(_, _, _, _, _, _, _, _, _)
findSpliceLoopTieAdvance(a, tl, st, key, prefix, level, prev, steps, compared) ==
    LET next == getNext(a, prev, level)
        stop(f, c) == [prev |-> prev, next |-> next, found |-> f,
                       steps |-> steps, compared |-> c]
    IN  IF next = tl
        THEN stop(FALSE, compared)
        ELSE LET nextPrefix == getKeyPrefix(a, next)
             IN  IF prefix < nextPrefix
                 THEN stop(FALSE, compared)
                 ELSE IF prefix = nextPrefix
                         /\ Compare(st, key, getKey(a, next)) = 0
                 THEN stop(TRUE, compared \cup {next})
                 ELSE findSpliceLoopTieAdvance(a, tl, st, key, prefix, level,
                                               next, steps + 1, compared)

findSpliceForLevelTieAdvance(a, tl, st, key, prefix, level, start) ==
    findSpliceLoopTieAdvance(a, tl, st, key, prefix, level, start, 0, {})

\* findSpliceLoop that takes a prefix tie for a match, without Compare.
RECURSIVE findSpliceLoopPrefixOnly(_, _, _, _, _, _, _, _, _)
findSpliceLoopPrefixOnly(a, tl, st, key, prefix, level, prev, steps, compared) ==
    LET next == getNext(a, prev, level)
        stop(f, c) == [prev |-> prev, next |-> next, found |-> f,
                       steps |-> steps, compared |-> c]
    IN  IF next = tl
        THEN stop(FALSE, compared)
        ELSE LET nextPrefix == getKeyPrefix(a, next)
             IN  IF prefix < nextPrefix
                 THEN stop(FALSE, compared)
                 ELSE IF prefix = nextPrefix
                 THEN stop(TRUE, compared)
                 ELSE findSpliceLoopPrefixOnly(a, tl, st, key, prefix, level,
                                               next, steps + 1, compared)

findSpliceForLevelPrefixOnly(a, tl, st, key, prefix, level, start) ==
    findSpliceLoopPrefixOnly(a, tl, st, key, prefix, level, start, 0, {})

\* findSpliceForLevel with the equality case not reported.
findSpliceForLevelNoMatch(a, tl, st, key, prefix, level, start) ==
    [findSpliceLoop(a, tl, st, key, prefix, level, start, 0, {})
        EXCEPT !.found = FALSE]

\* findSpliceForLevel that returns the successor as the predecessor when it
\* stops before a node.
findSpliceForLevelPrevIsNext(a, tl, st, key, prefix, level, start) ==
    LET r == findSpliceLoop(a, tl, st, key, prefix, level, start, 0, {})
    IN  [r EXCEPT !.prev = IF r.next = tl \/ r.found THEN r.prev ELSE r.next]

findSpliceForLevel(a, tl, st, key, prefix, level, start) ==
    findSpliceLoop(a, tl, st, key, prefix, level, start, 0, {})

-----------------------------------------------------------------------------
(* Insertion.                                                              *)

splZero == [l \in Levels |-> [prev |-> 0, next |-> 0]]

\* Splice search at each level from level down to 0, resuming from the
\* predecessor found at the level above; stops at the first match.  Each
\* level's result is bound through a one-element set, so that it is computed
\* once.
RECURSIVE seekForSplice(_, _, _, _, _, _, _, _)
seekForSplice(a, tl, st, key, prefix, level, prev, spl) ==
    CHOOSE out \in
        {LET spl1 == [spl EXCEPT ![level] = [prev |-> r.prev, next |-> r.next]]
         IN  IF r.found \/ level = 0
             THEN [found |-> r.found, spl |-> spl1, level |-> level]
             ELSE seekForSplice(a, tl, st, key, prefix, level - 1, r.prev, spl1)
         : r \in {findSpliceForLevel(a, tl, st, key, prefix, level, prev)}} : TRUE

\* Link node nd between spl[i].prev and spl[i].next at levels i..h-1.
RECURSIVE spliceLevels(_, _, _, _, _)
spliceLevels(a, nd, spl, i, h) ==
    IF i < h
    THEN CHOOSE out \in
             {spliceLevels(a4, nd, spl, i + 1, h) :
                 a4 \in {LET a1 == setNext(a, nd, i, spl[i].next)
                             a2 == setPrev(a1, nd, i, spl[i].prev)
                             a3 == setNext(a2, spl[i].prev, i, nd)
                         IN  setPrev(a3, spl[i].next, i, nd)}} : TRUE
    ELSE a

\* Insert key, already stored at keyOffset of st, with the draw rnd.
insert(a, hd, tl, ht, st, key, keyOffset, rnd) ==
    LET prefix == Prefix(key)
        h == randomHeight(rnd)
        ht1 == IF h > ht THEN h ELSE ht
        s == seekForSplice(a, tl, st, key, prefix, ht1 - 1, hd, splZero)
        n == newNode(a, h, keyOffset, prefix)
    IN  IF s.found
        THEN [nodes |-> a, height |-> ht1, err |-> "ErrRecordExists",
              nd |-> 0, h |-> h]
        ELSE [nodes |-> spliceLevels(n.nodes, n.offset, s.spl, 0, h),
              height |-> ht1, err |-> "", nd |-> n.offset, h |-> h]

-----------------------------------------------------------------------------
(* Iterator.                                                               *)

Valid(hd, tl, nd) == nd # hd /\ nd # tl

\* Seek to the first key >= key: the node the descent stops before.
seekGE(a, hd, tl, ht, st, key) ==
    LET s == seekForSplice(a, tl, st, key, Prefix(key), ht - 1, hd, splZero)
    IN  s.spl[s.level].next

-----------------------------------------------------------------------------
(* The list: construction, insertions and a cursor.                        *)

\* Draws that give the heights 1, 2 and 20.
Draws == {<<65535, 65535>>, <<8869, 21832>>, <<0, 0>>}

OpRec(name, err, key, h, nd, grew) ==
    [name |-> name, err |-> err, key |-> key, h |-> h, nd |-> nd, grew |-> grew]

Init ==
    \E b \in InitBufSizes :
        LET s == NewSkiplist(b)
        IN  /\ nodes = s.nodes
            /\ head = s.head
            /\ tail = s.tail
            /\ height = s.height
            /\ storage = <<>>
            /\ it = 0
            /\ op = OpRec("NewSkiplist", "", 0, 0, 0, FALSE)
            /\ issued = <<<<s.head, maxNodeSize>>, <<s.tail, maxNodeSize>>>>

Add(key, rnd, max) ==
    /\ Len(storage) < max
    /\ LET keyOffset == Len(storage)
           st == Append(storage, key)
       IN  \E r \in {insert(nodes, head, tail, height, st, key, keyOffset, rnd)} :
               /\ storage' = st
               /\ nodes' = r.nodes
               /\ height' = r.height
               /\ issued' = IF r.err = ""
                            THEN Append(issued, <<r.nd, r.nodes.len - nodes.len>>)
                            ELSE issued
               /\ op' = OpRec("Add", r.err, key, r.h, r.nd,
                              Len(r.nodes.buf) # Len(nodes.buf))
    /\ UNCHANGED <<head, tail, it>>

Next == \E key \in Keys, rnd \in Draws : Add(key, rnd, MaxOps)

Spec == Init /\ [][Next]_vars

\* The same insertions on the list NewSkiplist builds with the default buffer
\* (initBufSize 0).  The links, keys and prefixes of a list do not depend on
\* the capacity it started with, only the unused bytes behind them do.
InitList ==
    \E s \in {NewSkiplist(0)} :
        /\ nodes = s.nodes
        /\ head = s.head
        /\ tail = s.tail
        /\ height = s.height
        /\ storage = <<>>
        /\ it = 0
        /\ op = OpRec("NewSkiplist", "", 0, 0, 0, FALSE)
        /\ issued = <<<<s.head, maxNodeSize>>, <<s.tail, maxNodeSize>>>>

SpecList == InitList /\ [][Next]_vars

-----------------------------------------------------------------------------
(* The list with a cursor stepping over it.                                *)

IterOp(name) == OpRec(name, "", 0, 0, 0, FALSE)

First ==
    /\ it' = getNext(nodes, head, 0)
    /\ op' = IterOp("First")
    /\ UNCHANGED <<nodes, head, tail, height, storage, issued>>

Last ==
    /\ it' = getPrev(nodes, tail, 0)
    /\ op' = IterOp("Last")
    /\ UNCHANGED <<nodes, head, tail, height, storage, issued>>

\* step-next: follows the level-0 next link; on tail it is a no-op.
IterNext ==
    /\ it' = IF it = tail THEN tail ELSE getNext(nodes, it, 0)
    /\ op' = IterOp("Next")
    /\ UNCHANGED <<nodes, head, tail, height, storage, issued>>

\* step-prev: follows the level-0 prev link; on head it is a no-op.
IterPrev ==
    /\ it' = IF it = head THEN head ELSE getPrev(nodes, it, 0)
    /\ op' = IterOp("Prev")
    /\ UNCHANGED <<nodes, head, tail, height, storage, issued>>

SeekGE(key) ==
    /\ it' = seekGE(nodes, head, tail, height, storage, key)
    /\ op' = IterOp("SeekGE")
    /\ UNCHANGED <<nodes, head, tail, height, storage, issued>>

NextIter ==
    \/ \E key \in Keys, rnd \in Draws : Add(key, rnd, MaxIterOps)
    \/ First
    \/ Last
    \/ IterNext
    \/ IterPrev
    \/ \E key \in Keys : SeekGE(key)

SpecIter == Init /\ [][NextIter]_vars

-----------------------------------------------------------------------------
(* Reading the list structure.                                             *)

NodeOffsets == {issued[i][1] : i \in 1..Len(issued)}

\* The height a node was created with, from the size of its region.
NodeHeight(nd) ==
    LET i == CHOOSE j \in 1..Len(issued) : issued[j][1] = nd
    IN  (issued[i][2] - linksField) \div linksSize

\* The nodes the next links of a level visit from nd on, tail included; ends
\* with -1 instead when the walk leaves the allocated nodes or does not reach
\* tail within fuel steps.
RECURSIVE chainFrom(_, _, _, _, _)
chainFrom(a, tl, level, nd, fuel) ==
    IF nd = tl THEN <<tl>>
    ELSE IF fuel = 0 \/ nd \notin NodeOffsets THEN <<-1>>
    ELSE <<nd>> \o chainFrom(a, tl, level, getNext(a, nd, level), fuel - 1)

Chain(level) == chainFrom(nodes, tail, level, head, Len(issued))

\* The nodes of a chain strictly between head and tail.
Inner(c) == SubSeq(c, 2, Len(c) - 1)

KeyOf(nd) == Get(storage, getKey(nodes, nd))

StoredKeys == {storage[i] : i \in 1..Len(storage)}

-----------------------------------------------------------------------------
(* Claims about the list under insertions (Spec).                          *)

\* C1: walking next links at level 0 from head to tail visits exactly the
\* inserted keys, each once, in strictly ascending comparator order.
C1_Level0Ascending ==
    LET c == Chain(0)
        n == Inner(c)
    IN  /\ c[1] = head
        /\ c[Len(c)] = tail
        /\ \A i \in 1..(Len(n) - 1) : KeyOf(n[i]) < KeyOf(n[i + 1])
        /\ {KeyOf(n[i]) : i \in 1..Len(n)} = StoredKeys

\* Three keys inserted in the order 2, 0, 1 and all three on the chain.
C1_Witness ==
    /\ storage = <<2, 0, 1>>
    /\ op.name = "Add" /\ op.err = ""
    /\ Len(Chain(0)) = 5

\* C2: inserting a key equal to a key already in the list returns
\* ErrRecordExists and changes nothing: the arena (every link, its length),
\* the allocated nodes, the level-0 traversal and the node count stay as
\* they were.
C2_DuplicateChangesNothing ==
    [][(op'.name = "Add" /\ storage' # storage
          /\ storage'[Len(storage')] \in {KeyOf(Inner(Chain(0))[i]) :
                                            i \in 1..Len(Inner(Chain(0)))})
       => /\ op'.err = "ErrRecordExists"
          /\ nodes' = nodes
          /\ issued' = issued
          /\ Chain(0)' = Chain(0)]_vars

\* A duplicate was rejected whose drawn height is above the list's height
\* before the call.
C2_Witness ==
    /\ op.name = "Add" /\ op.err = "ErrRecordExists"
    /\ op.h = maxHeight
    /\ \A i \in 1..Len(issued) : i > 2 => NodeHeight(issued[i][1]) < maxHeight

\* C3: for every node n and every level L below n's height, if n is not
\* head then next(prev(n, L), L) = n, and if n is not tail then
\* prev(next(n, L), L) = n.
C3_LinksMutual ==
    \A n \in NodeOffsets : \A L \in 0..(NodeHeight(n) - 1) :
        /\ n # head => /\ getPrev(nodes, n, L) \in NodeOffsets
                       /\ getNext(nodes, getPrev(nodes, n, L), L) = n
        /\ n # tail => /\ getNext(nodes, n, L) \in NodeOffsets
                       /\ getPrev(nodes, getNext(nodes, n, L), L) = n

\* Three nodes inserted, the last one of height 2 between two others.
C3_Witness ==
    /\ Len(issued) = 5
    /\ op.name = "Add" /\ op.err = "" /\ op.h = 2
    /\ getPrev(nodes, op.nd, 1) # head
    /\ getNext(nodes, op.nd, 1) # tail

\* C4: head and tail are on the chain of each of the 20 levels, and at
\* every level at or above the height field the chain is empty:
\* next(head, L) = tail and prev(tail, L) = head.
C4_SentinelsLinked ==
    \A L \in Levels :
        /\ Chain(L)[1] = head
        /\ Chain(L)[Len(Chain(L))] = tail
        /\ L >= height => /\ getNext(nodes, head, L) = tail
                          /\ getPrev(nodes, tail, L) = head

\* A list of height 2 with a node on level 1 and nothing above.
C4_Witness ==
    /\ height = 2
    /\ Len(Chain(1)) = 3
    /\ Len(Chain(0)) > 3

-----------------------------------------------------------------------------
(* Claims about the list with a cursor (SpecIter).                         *)

\* C5: on a freshly constructed list, for every target key and every
\* level, a splice search started at head returns prev = head, next = tail,
\* found = false; seek of any key lands on tail, and an iterator moved to
\* first or to last is not valid.
C5_EmptyList ==
    storage = <<>> =>
        /\ \A key \in Keys, L \in Levels :
               /\ getNext(nodes, head, L) = tail
               /\ LET r == findSpliceForLevel(nodes, tail, storage, key,
                                              Prefix(key), L, head)
                  IN  r.prev = head /\ r.next = tail /\ r.found = FALSE
        /\ \A key \in Keys :
               seekGE(nodes, head, tail, height, storage, key) = tail
        /\ op.name \in {"First", "Last"} => ~Valid(head, tail, it)
        /\ op.name = "SeekGE" => it = tail

\* The cursor of an empty list was moved to first and rests on tail.
C5_Witness ==
    /\ storage = <<>>
    /\ op.name = "First"
    /\ it = tail

\* C10: stepping past an end lands on the sentinel: step-next from the
\* position move-to-last gives (the last node, head in an empty list) lands
\* on tail, step-prev from the position move-to-first gives lands on head;
\* and every further step in the same direction leaves the cursor on that
\* sentinel.
C10_StepPastEnd ==
    [][/\ (op'.name = "Next" /\ (it = tail \/ it = getPrev(nodes, tail, 0)))
             => it' = tail
       /\ (op'.name = "Prev" /\ (it = head \/ it = getNext(nodes, head, 0)))
             => it' = head]_vars

\* A step-next ended on tail in a list that holds two nodes.
C10_Witness ==
    /\ op.name = "Next"
    /\ it = tail
    /\ Len(Chain(0)) = 4

-----------------------------------------------------------------------------
(* The arena under alloc and newNode calls.                                *)

\* An arena may start as that of a list holding key 1 (height 2) and key 0
\* (height 20), inserted in this order.
SampleKeys == <<1, 0>>

\* The draws of its two insertions: heights 2 and 20.
SampleDraws == <<<<8869, 21832>>, <<0, 0>>>>

AllocSizes == {8, 700}
CallHeights == {0, 1, 2, maxHeight, maxHeight + 1, 1000}
\* The <<key offset, prefix>> a call passes: both wider than one byte.
CallKeyPrefixes == {<<300, 70000>>}

InitArena ==
    \E b \in InitBufSizes : \E s \in {NewSkiplist(b)} :
        /\ head = s.head
        /\ tail = s.tail
        /\ it = 0
        /\ \/ /\ nodes = s.nodes
              /\ height = s.height
              /\ storage = <<>>
              /\ op = OpRec("NewSkiplist", "", 0, 0, 0, FALSE)
              /\ issued = <<<<s.head, maxNodeSize>>, <<s.tail, maxNodeSize>>>>
           \/ \E r1 \in {insert(s.nodes, s.head, s.tail, s.height, SampleKeys,
                                SampleKeys[1], 0, SampleDraws[1])} :
              \E r2 \in {insert(r1.nodes, s.head, s.tail, r1.height, SampleKeys,
                                SampleKeys[2], 1, SampleDraws[2])} :
                  /\ nodes = r2.nodes
                  /\ height = r2.height
                  /\ storage = SampleKeys
                  /\ op = OpRec("Add", r2.err, SampleKeys[2], r2.h, r2.nd, FALSE)
                  /\ issued = <<<<s.head, maxNodeSize>>, <<s.tail, maxNodeSize>>,
                                <<r1.nd, r1.nodes.len - s.nodes.len>>,
                                <<r2.nd, r2.nodes.len - r1.nodes.len>>>>

AllocCall(size) ==
    /\ op.err # "panic"
    /\ Len(issued) < MaxIssued
    /\ \E r \in {alloc(nodes, size)} :
           /\ nodes' = r.nodes
           /\ issued' = Append(issued, <<r.offset, size>>)
           /\ op' = OpRec("alloc", "", 0, 0, r.offset,
                          Len(r.nodes.buf) # Len(nodes.buf))
    /\ UNCHANGED <<head, tail, height, storage, it>>

NewNodeCall(h, key, prefix) ==
    /\ op.err # "panic"
    /\ Len(issued) < MaxIssued
    /\ \E r \in {newNode(nodes, h, key, prefix)} :
           IF r.panic
           THEN /\ op' = OpRec("newNode", "panic", <<key, prefix>>, h, 0, FALSE)
                /\ UNCHANGED <<nodes, issued>>
           ELSE /\ nodes' = r.nodes
                /\ issued' = Append(issued, <<r.offset, r.nodes.len - nodes.len>>)
                /\ op' = OpRec("newNode", "", <<key, prefix>>, h, r.offset,
                               Len(r.nodes.buf) # Len(nodes.buf))
    /\ UNCHANGED <<head, tail, height, storage, it>>

NextArena ==
    \/ \E size \in AllocSizes : AllocCall(size)
    \/ \E h \in CallHeights, kp \in CallKeyPrefixes : NewNodeCall(h, kp[1], kp[2])

SpecArena == InitArena /\ [][NextArena]_vars

\* The issued regions that hold a node: their size is that of a node.
IsNodeSize(size) ==
    \E h \in 1..maxHeight : size = linksField + h * linksSize

NodeRegions == {i \in 1..Len(issued) : IsNodeSize(issued[i][2])}

\* C7: an alloc or newNode call, growing the buffer or not, leaves the key
\* offset, the prefix and every link of every node allocated before it
\* readable at its original offset with the same value, and writes only
\* inside the newly issued region; a buffer that has to grow becomes twice
\* as large, or exactly as large as needed when that is more.
C7_GrowthPreservesNodes ==
    [][issued' # issued =>
          LET off == issued'[Len(issued')][1]
              size == issued'[Len(issued')][2]
              cap == Len(nodes.buf)
          IN  /\ \A i \in NodeRegions :
                    LET n == issued[i][1]
                    IN  /\ getKey(nodes', n) = getKey(nodes, n)
                        /\ getKeyPrefix(nodes', n) = getKeyPrefix(nodes, n)
                        /\ \A L \in 0..(NodeHeight(n) - 1) :
                              /\ getNext(nodes', n, L) = getNext(nodes, n, L)
                              /\ getPrev(nodes', n, L) = getPrev(nodes, n, L)
              /\ \A i \in 1..Len(nodes'.buf) :
                    (i <= off \/ i > off + size) =>
                        nodes'.buf[i] = IF i <= cap THEN nodes.buf[i] ELSE 0
              /\ Len(nodes'.buf) =
                    IF cap >= off + size THEN cap
                    ELSE IF cap * 2 >= off + size THEN cap * 2
                    ELSE off + size]_vars

\* A newNode call grew the buffer of an arena that holds linked nodes.
C7_Witness ==
    /\ op.name = "newNode" /\ op.grew
    /\ Len(issued) = 5
    /\ getNext(nodes, issued[4][1], 1) = issued[3][1]
    /\ <<getKey(nodes, op.nd), getKeyPrefix(nodes, op.nd)>> \in CallKeyPrefixes

\* C8: newNode with height 0 or above 20 panics before anything is
\* allocated, the arena length and all contents unchanged; with a height in
\* 1..20 it does not fail and returns a fresh offset whose node stores the
\* given key offset and prefix.
C8_NewNodeHeightCheck ==
    [][op'.name = "newNode" =>
          IF op'.h < 1 \/ op'.h > maxHeight
          THEN /\ op'.err = "panic"
               /\ nodes' = nodes
               /\ issued' = issued
          ELSE /\ op'.err = ""
               /\ op'.nd = nodes.len
               /\ \A i \in 1..Len(issued) : issued[i][1] # op'.nd
               /\ nodes'.len = nodes.len + linksField + op'.h * linksSize
               /\ getKey(nodes', op'.nd) = op'.key[1]
               /\ getKeyPrefix(nodes', op'.nd) = op'.key[2]]_vars

\* newNode was called with height 21 on an arena holding nodes and panicked.
C8_Witness ==
    /\ op.name = "newNode" /\ op.err = "panic"
    /\ op.h = maxHeight + 1
    /\ Len(issued) > 2

-----------------------------------------------------------------------------
(* The height draw.                                                        *)

\* Draws at, just below and just above each threshold of the table, and the
\* ends and the middle of the 32-bit range.
ThresholdDraws ==
    {ToU32(probabilities[k + 1][1] * 65536 + probabilities[k + 1][2] + d) :
        k \in 1..(maxHeight - 1), d \in (0 - DrawSpread)..DrawSpread}

HeightDraws ==
    ThresholdDraws \cup {<<0, 0>>, <<32767, 65535>>, <<32768, 0>>, <<65535, 65535>>}

InitHeight ==
    /\ \E s \in {NewSkiplist(0)} :
           /\ nodes = s.nodes
           /\ head = s.head
           /\ tail = s.tail
           /\ height = s.height
           /\ issued = <<<<s.head, maxNodeSize>>, <<s.tail, maxNodeSize>>>>
    /\ storage = <<>>
    /\ it = 0
    /\ op = OpRec("NewSkiplist", "", 0, 0, 0, FALSE)

RandomHeightCall(rnd) ==
    /\ op' = OpRec("randomHeight", "", rnd, randomHeight(rnd), 0, FALSE)
    /\ UNCHANGED <<nodes, head, tail, height, storage, it, issued>>

NextHeight == \E rnd \in HeightDraws : RandomHeightCall(rnd)

SpecHeight == InitHeight /\ [][NextHeight]_vars

\* The number of leading entries probabilities[1], probabilities[2], ...
\* that are >= the draw.
LeadingAtLeast(rnd) ==
    Cardinality({k \in 1..(maxHeight - 1) :
                    \A j \in 1..k : Leq32(rnd, probabilities[j + 1])})

\* C9: randomHeight returns h with 1 <= h <= 20, h one plus the number of
\* leading table entries that are >= the draw, and a smaller draw never
\* yields a smaller height than a larger draw.
C9_RandomHeight ==
    op.name = "randomHeight" =>
        /\ op.h >= 1 /\ op.h <= maxHeight
        /\ op.h = 1 + LeadingAtLeast(op.key)
        /\ \A r \in HeightDraws :
               Leq32(r, op.key) => randomHeight(r) >= op.h

\* The draw equal to the threshold probabilities[3] gave height 4.
C9_Witness ==
    /\ op.name = "randomHeight"
    /\ op.key = probabilities[4]
    /\ op.h = 4

-----------------------------------------------------------------------------
(* Claims about what an insertion keeps (Spec).                            *)

\* The nodes the next links of a level visit in arena a from nd on, tail
\* included; ends with -1 when the walk leaves the nodes offs or does not
\* reach tail within fuel steps.
RECURSIVE nextWalk(_, _, _, _, _, _)
nextWalk(a, offs, tl, level, nd, fuel) ==
    IF nd = tl THEN <<tl>>
    ELSE IF fuel = 0 \/ nd \notin offs THEN <<-1>>
    ELSE <<nd>> \o nextWalk(a, offs, tl, level, getNext(a, nd, level), fuel - 1)

\* The same along the prev links, back to head.
RECURSIVE prevWalk(_, _, _, _, _, _)
prevWalk(a, offs, hd, level, nd, fuel) ==
    IF nd = hd THEN <<hd>>
    ELSE IF fuel = 0 \/ nd \notin offs THEN <<-1>>
    ELSE <<nd>> \o prevWalk(a, offs, hd, level, getPrev(a, nd, level), fuel - 1)

Last_(c) == c[Len(c)]

Elems(c) == {c[i] : i \in 1..Len(c)}

PosIn(c, x) == CHOOSE k \in 1..Len(c) : c[k] = x

\* c occurs in d, in the same relative order: each element of c comes
\* before its successor in d.
KeepsOrder(c, d) ==
    \/ c = d
    \/ /\ Elems(c) \subseteq Elems(d)
       /\ \A i \in 1..(Len(c) - 1) : PosIn(d, c[i]) < PosIn(d, c[i + 1])

\* C11: an insertion never removes, rewrites or reorders existing nodes:
\* every node on the chain of a level before it is on that chain after it,
\* in the same relative order, with unchanged key offset and prefix, and
\* from every node tail is still reached by step-next and head by step-prev.
C11_InsertKeepsNodes ==
    [][storage' # storage =>
          \A a1 \in {nodes'} :
          \A offs1 \in {NodeOffsets'} :
          \A fuel1 \in {Len(issued')} :
              /\ \A L \in Levels :
                 \A c \in {Chain(L)} :
                 \A d \in {nextWalk(a1, offs1, tail, L, head, fuel1)} :
                     KeepsOrder(c, d)
              /\ \A n \in NodeOffsets :
                    /\ getKey(a1, n) = getKey(nodes, n)
                    /\ getKeyPrefix(a1, n) = getKeyPrefix(nodes, n)
                    /\ Last_(nextWalk(a1, offs1, tail, 0, n, fuel1)) = tail
                    /\ Last_(prevWalk(a1, offs1, head, 0, n, fuel1)) = head]_vars

\* A node of height 20 was inserted between two nodes of a three-node list.
C11_Witness ==
    /\ Len(issued) = 5
    /\ op.name = "Add" /\ op.err = "" /\ op.h = maxHeight
    /\ getPrev(nodes, op.nd, 0) # head
    /\ getNext(nodes, op.nd, 0) # tail

-----------------------------------------------------------------------------
(* Claims about splice search on the lists insertions build (Spec).        *)

\* The chain of a level is strictly ascending in key order.
Ascending(c) ==
    \A i \in 2..(Len(c) - 2) : KeyOf(c[i]) < KeyOf(c[i + 1])

\* The nodes of chain c a search for key may start from: head, and the nodes
\* with a smaller key.
Starts(c, key) ==
    {c[i] : i \in {j \in 1..(Len(c) - 1) : j = 1 \/ KeyOf(c[j]) < key}}

\* The prefix function is order-compatible on the keys.
PrefixOrderCompatible ==
    \A x, y \in Keys : Prefix(x) < Prefix(y) => x < y

\* C12: on a level whose chain is strictly ascending, with an
\* order-compatible prefix and a start that is head or has key < target,
\* findSpliceForLevel returns (prev, next, found) with next the level's next
\* link of prev, prev head or key(prev) < target, next tail or
\* target <= key(next), and found exactly when next is not tail and
\* key(next) is the target.
C12_SpliceResult ==
    [](
        PrefixOrderCompatible =>
        \A L \in Levels : \A c \in {Chain(L)} :
            (Last_(c) = tail /\ Ascending(c)) =>
            \A key \in Keys : \A start \in Starts(c, key) :
            \A r \in {findSpliceForLevel(nodes, tail, storage, key, Prefix(key),
                                         L, start)} :
                /\ r.next = getNext(nodes, r.prev, L)
                /\ r.prev = head \/ KeyOf(r.prev) < key
                /\ r.next = tail \/ key <= KeyOf(r.next)
                /\ r.found <=> (r.next # tail /\ KeyOf(r.next) = key))

\* On a three-node level 0, a search started at the first node advances to
\* the second and finds the key in the third.
C12_Witness ==
    /\ Len(Chain(0)) = 5
    /\ \E r \in {findSpliceForLevel(nodes, tail, storage, MaxKey,
                                    Prefix(MaxKey), 0, Chain(0)[2])} :
           /\ r.found
           /\ r.steps = 1
           /\ r.next = Chain(0)[4]

\* C13: findSpliceForLevel calls Storage.Compare only on a non-tail node
\* whose stored prefix equals the target's prefix; neither the tail nor the
\* start node is ever compared, so the key offset and the prefix stored in
\* head and tail take part in no comparison, of keys or of prefixes.
C13_CompareOnlyOnTie ==
    [](
        \A L \in Levels : \A c \in {Chain(L)} :
            Last_(c) = tail =>
            \A key \in Keys : \A start \in Elems(c) \ {tail} :
            \A r \in {findSpliceForLevel(nodes, tail, storage, key, Prefix(key),
                                         L, start)} :
            \A e \in r.compared :
                /\ e[2] \notin {head, tail, start}
                /\ e[1] = "key" => getKeyPrefix(nodes, e[2]) = Prefix(key))

\* A search on level 0 skipped Compare on a node of another prefix and
\* called it on a node of the target's prefix.
C13_Witness ==
    \E key \in Keys :
    \E r \in {findSpliceForLevel(nodes, tail, storage, key, Prefix(key),
                                 0, head)} :
        /\ \E n \in NodeOffsets : <<"key", n>> \in r.compared
        /\ \E n \in NodeOffsets : /\ <<"prefix", n>> \in r.compared
                                  /\ <<"key", n>> \notin r.compared

\* The first node of chain c from position i on whose key is >= key; tail
\* when there is none.
RECURSIVE firstAtLeast(_, _, _)
firstAtLeast(c, key, i) ==
    IF i >= Len(c) THEN c[Len(c)]
    ELSE IF KeyOf(c[i]) >= key THEN c[i]
    ELSE firstAtLeast(c, key, i + 1)

\* C14: the descent from level height-1 to level 0, each level searched
\* from the predecessor returned at the level above, gives at every level it
\* reaches the same (prev, next, found) as a splice search started from head
\* at that level; the predecessors never move backwards in key order as the
\* level decreases, and at level 0 next is the first node with
\* key >= target (tail when there is none).
C14_DescentAgreesWithHead ==
    [](
        \A key \in Keys :
        \A s \in {seekForSplice(nodes, tail, storage, key, Prefix(key),
                                height - 1, head, splZero)} :
        \A c0 \in {Chain(0)} :
            /\ \A L \in s.level..(height - 1) :
               \A r \in {findSpliceForLevel(nodes, tail, storage, key, Prefix(key),
                                            L, head)} :
                   /\ s.spl[L].prev = r.prev
                   /\ s.spl[L].next = r.next
                   /\ r.found <=> (s.found /\ L = s.level)
            /\ \A L \in (s.level + 1)..(height - 1) :
                   PosIn(c0, s.spl[L].prev) <= PosIn(c0, s.spl[L - 1].prev)
            /\ s.level = 0 => s.spl[0].next = firstAtLeast(c0, key, 2))

\* A descent from the top level that keeps head as predecessor down to
\* level 2, moves it forward at level 1 and again at level 0.
C14_Witness ==
    /\ height = maxHeight
    /\ Len(Chain(0)) = 4
    /\ \E key \in Keys :
       \E s \in {seekForSplice(nodes, tail, storage, key, Prefix(key),
                               height - 1, head, splZero)} :
           /\ s.level = 0
           /\ s.spl[2].prev = head
           /\ s.spl[1].prev # head
           /\ s.spl[0].prev # s.spl[1].prev

\* C16: the list's height field is 1 after construction, stays within
\* 1..maxHeight, never decreases, and after an insertion that drew height h
\* it is at least h.
C16_HeightField ==
    /\ [](/\ height \in 1..maxHeight
          /\ op.name = "NewSkiplist" => height = 1)
    /\ [][/\ height' >= height
          /\ op'.name = "Add" => height' >= op'.h]_vars

\* An insertion that drew height 1 into a list whose height an earlier
\* insertion had raised to maxHeight.
C16_Witness ==
    /\ op.name = "Add"
    /\ op.err = ""
    /\ op.h = 1
    /\ height = maxHeight

NoRepeat(c) == \A i, j \in 1..Len(c) : c[i] = c[j] => i = j

\* C18: in every reachable list, at every level 0..maxHeight-1, the level's
\* chain from head is a finite path without repetition that ends at tail, and
\* findSpliceForLevel started at any node of it other than tail advances
\* along that path only: after steps advances its prev is the node steps
\* places after the start and its next the node after that, so it advances at
\* most once per node and stops at tail at the latest.
C18_SearchTerminates ==
    [](
        \A L \in Levels :
        \A c \in {Chain(L)} :
            /\ Last_(c) = tail
            /\ NoRepeat(c)
            /\ \A key \in Keys :
               \A i \in 1..(Len(c) - 1) :
               \A r \in {findSpliceForLevel(nodes, tail, storage, key, Prefix(key),
                                            L, c[i])} :
                   /\ i + r.steps + 1 <= Len(c)
                   /\ r.prev = c[i + r.steps]
                   /\ r.next = c[i + r.steps + 1])

\* A search from head that advances over every node of the level-0 chain and
\* stops at tail.
C18_Witness ==
    /\ Len(Chain(0)) = 4
    /\ \E key \in Keys :
       \E r \in {findSpliceForLevel(nodes, tail, storage, key, Prefix(key),
                                    0, head)} :
           /\ r.next = tail
           /\ r.steps = 2
           /\ ~r.found

\* The nodes whose level link findSpliceForLevel reads when it starts at nd
\* and advances steps times.
RECURSIVE linkReads(_, _, _, _)
linkReads(a, level, nd, steps) ==
    IF steps = 0 THEN {nd}
    ELSE {nd} \cup linkReads(a, level, getNext(a, nd, level), steps - 1)

\* The link pair of node nd at level L exists: L is below the height nd was
\* created with, and the pair's bytes lie inside the arena.
SlotInside(nd, L) ==
    /\ nd \in NodeOffsets
    /\ L < NodeHeight(nd)
    /\ nd + linksField + (L + 1) * linksSize <= nodes.len

\* Byte positions (1-based) of the next slot and of the prev slot of node nd
\* at level L.
NextSlot(nd, L) ==
    (nd + linksField + L * linksSize + 1)..(nd + linksField + L * linksSize + prevField)
PrevSlot(nd, L) ==
    (nd + linksField + L * linksSize + prevField + 1)..(nd + linksField + (L + 1) * linksSize)

\* C15: an inserted node extends the arena by exactly the header plus one
\* link pair per level of its height; every node whose level-L link
\* findSpliceForLevel reads, and every node whose level-L link is written
\* when a node is spliced in, was created with height > L and has that link
\* pair inside the arena; the splice changes no other byte of the nodes
\* already there.
C15_LinksWithinHeight ==
    /\ [](/\ (op.name = "Add" /\ op.err = "") =>
                 issued[Len(issued)] = <<op.nd, linksField + op.h * linksSize>>
          /\ \A L \in Levels :
             \A c \in {Chain(L)} :
                 Last_(c) = tail =>
                     \A key \in Keys :
                     \A i \in 1..(Len(c) - 1) :
                     \A r \in {findSpliceForLevel(nodes, tail, storage, key,
                                                  Prefix(key), L, c[i])} :
                     \A n \in linkReads(nodes, L, c[i], r.steps) :
                         SlotInside(n, L))
    /\ [][(storage' # storage /\ op'.err = "") =>
             \A s \in {seekForSplice(nodes, tail, storage', op'.key,
                                     Prefix(op'.key), height' - 1, head, splZero)} :
             \A nd \in {op'.nd} :
             \A h \in {op'.h} :
                 /\ nodes'.len = nodes.len + linksField + h * linksSize
                 /\ \A i \in 0..(h - 1) :
                        /\ SlotInside(nd, i)'
                        /\ SlotInside(s.spl[i].prev, i)
                        /\ SlotInside(s.spl[i].next, i)
                 /\ \A b \in {x \in 1..nodes.len : nodes'.buf[x] # nodes.buf[x]} :
                        \E i \in 0..(h - 1) :
                            \/ b \in NextSlot(s.spl[i].prev, i)
                            \/ b \in PrevSlot(s.spl[i].next, i)]_vars

\* A node of height 2 was spliced in right before a node of height 1, so
\* that its level-1 links were written next to a node that has no level 1.
C15_Witness ==
    /\ op.name = "Add"
    /\ op.err = ""
    /\ op.h = 2
    /\ getNext(nodes, op.nd, 0) # tail
    /\ NodeHeight(getNext(nodes, op.nd, 0)) = 1
    /\ getNext(nodes, op.nd, 1) = tail

-----------------------------------------------------------------------------
(* alloc over the full 32-bit range.  Lengths, capacities and sizes are     *)
(* <<high, low 16 bits>> pairs; the arena's contents are left out, only its *)
(* length and capacity are kept (nodes.len, nodes.cap).                     *)

MaxWideCalls == 3    \* alloc calls in the full-range specification

\* Sizes passed to alloc: 24, 176, 2^30, 2^31 and 2^32 - 256.
WideSizes == {<<0, 24>>, <<0, 176>>, <<16384, 0>>, <<32768, 0>>, <<65535, 65280>>}

\* Sum of two pairs as a mathematical integer: the high part is not reduced.
AddW(x, y) ==
    LET lo == x[2] + y[2]
    IN  <<x[1] + y[1] + lo \div 65536, lo % 65536>>

\* Conversion to uint32: the value modulo 2^32.
Wrap32(x) == <<x[1] % 65536, x[2]>>

\* alloc on the length and capacity of s.nodes (64-bit int; both are below
\* 2^32 in every state alloc leaves).
alloc32(a, size) ==
    LET offset == Wrap32(a.len)
        newSize == Wrap32(AddW(offset, size))
        allocSize0 == Wrap32(AddW(a.cap, a.cap))
        allocSize == IF Lt32(allocSize0, newSize) THEN newSize ELSE allocSize0
        cap1 == IF Lt32(a.cap, newSize) THEN allocSize ELSE a.cap
    IN  [nodes |-> [len |-> newSize, cap |-> cap1], offset |-> offset]

InitWide ==
    \E b \in InitBufSizes : \E s \in {NewSkiplist(b)} :
        /\ nodes = [len |-> ToU32(s.nodes.len), cap |-> ToU32(Len(s.nodes.buf))]
        /\ head = s.head
        /\ tail = s.tail
        /\ height = s.height
        /\ storage = <<>>
        /\ it = 0
        /\ op = [name |-> "NewSkiplist", size |-> <<0, 0>>, offset |-> <<0, 0>>]
        /\ issued = <<<<ToU32(s.head), ToU32(maxNodeSize)>>,
                      <<ToU32(s.tail), ToU32(maxNodeSize)>>>>

AllocWide(size) ==
    /\ Len(issued) < MaxWideCalls + 2
    /\ \E r \in {alloc32(nodes, size)} :
           /\ nodes' = r.nodes
           /\ op' = [name |-> "alloc", size |-> size, offset |-> r.offset]
           /\ issued' = Append(issued, <<r.offset, size>>)
    /\ UNCHANGED <<head, tail, height, storage, it>>

NextWide == \E size \in WideSizes : AllocWide(size)

SpecWide == InitWide /\ [][NextWide]_vars

\* C6: for any sequence of alloc calls, each call returns the arena length
\* as it was before the call, returned offsets are strictly increasing, and
\* the regions [offset, offset + size) of different allocations, those of
\* head and tail included, never overlap.
C6_OffsetsFresh ==
    /\ [](\A i, j \in 1..Len(issued) :
              i < j => /\ Lt32(issued[i][1], issued[j][1])
                       /\ Leq32(AddW(issued[i][1], issued[i][2]), issued[j][1]))
    /\ [][op'.name = "alloc" => op'.offset = nodes.len]_vars

\* C17: alloc's 32-bit arithmetic never wraps: the arena length after
\* alloc(size) is the length before plus size as mathematical integers, the
\* length never decreases, and the returned region [offset, offset + size)
\* lies inside the arena.
C17_AllocNoWrap ==
    [][op'.name = "alloc" =>
          /\ nodes'.len = AddW(nodes.len, op'.size)
          /\ Leq32(nodes.len, nodes'.len)
          /\ op'.offset = nodes.len
          /\ Leq32(AddW(op'.offset, op'.size), nodes'.len)]_vars

=============================================================================
